---- MODULE Spec2Model ----
(***************************************************************************)
(* Model of python/src/ouster/sdk/examples/pcap.py: the command-line       *)
(* runner `main` and the eight pcap examples it dispatches to.             *)
(*                                                                         *)
(* One run of the program is a record (`run`): the executing function, its *)
(* arguments and locals, the output it has produced (`trace`), the files   *)
(* it has written (`fs`), the directories that exist (`dirs`) and how it   *)
(* ended (`how`, `code`).  The world the run is started in is `env`: the   *)
(* capture file, the installed libraries, the command line, and the place  *)
(* where an external call fails, if one does.  Every statement group of    *)
(* the source is an operator from run records to run records; an action    *)
(* applies the operator of the current program location.                   *)
(*                                                                         *)
(* External collaborators are modelled by their interface only:            *)
(*   - a capture is the sequence of its decoded scans (distinct scans);    *)
(*   - XYZLut is a function of the range channel of one scan;              *)
(*   - a writer call either writes the named file or raises;               *)
(*   - a python process that ends by an uncaught exception has status 1.   *)
(***************************************************************************)
EXTENDS Integers, Sequences, FiniteSets, TLC

VARIABLES env, run, run2

vars == <<env, run, run2>>

----------------------------------------------------------------------------
(* Bounds of the model *)

\* largest number of scans in a capture
MaxK == 3
\* largest value of num / --scan-num that is tried (the smallest is -1)
MaxNum == 4

----------------------------------------------------------------------------
(* Values *)

UNSET == "<unset>"
None == [range |-> -1, refl |-> -1]

DUAL == "PROFILE_LIDAR_RNG19_RFL8_SIG16_NIR16_DUAL"
LEGACY == "PROFILE_LIDAR_LEGACY"
Profiles == {DUAL, LEGACY}

Libraries == {"open3d", "laspy", "matplotlib"}

\* the scan at zero-based position p of a capture: scans are pairwise distinct
ScanAt(p) == [range |-> 100 + (7 * p), refl |-> 50 - p]

Capture(k) == [i \in 1..k |-> ScanAt(i - 1)]

\* field lists of a scan, as (name, dtype) pairs in the order scan.fields gives
FieldLists ==
    { << <<"RANGE", "uint32">>, <<"REFLECTIVITY", "uint8">> >>,
      << <<"RANGE", "uint32">>, <<"SIGNAL", "uint16">>,
         <<"NEAR_IR", "uint16">>, <<"REFLECTIVITY", "uint16">> >>,
      << <<"RANGE", "uint32">>, <<"RANGE2", "uint32">>,
         <<"REFLECTIVITY", "uint8">>, <<"REFLECTIVITY2", "uint8">>,
         <<"FLAGS", "uint8">> >> }

PacketLists ==
    { << >>, <<"lidar">>, <<"imu", "lidar">>, <<"lidar", "other", "imu">> }

Dirs == {".", "out"}

NoFail == [where |-> "none", at |-> 0, partial |-> FALSE]

\* where an external call of the export loop fails: the projection of scan
\* `at` raises, or the writer raises on file `at`, leaving a partial file or
\* none
Failures ==
    {NoFail}
    \cup [where : {"project"}, at : 0..(MaxK - 1), partial : {FALSE}]
    \cup [where : {"write"}, at : 0..(MaxK - 1), partial : BOOLEAN]

----------------------------------------------------------------------------
(* Python built-ins used by the source *)

Min(a, b) == IF a < b THEN a ELSE b

DigitChar == <<"0", "1", "2", "3", "4", "5", "6", "7", "8", "9">>

\* str(n) for n >= 0
RECURSIVE Str(_)
Str(n) == IF n < 10 THEN DigitChar[n + 1]
          ELSE Str(n \div 10) \o DigitChar[(n % 10) + 1]

RECURSIVE ZeroPad(_, _)
ZeroPad(s, w) == IF Len(s) >= w THEN s ELSE ZeroPad("0" \o s, w)

\* f'{idx:06d}'
Format06d(idx) == ZeroPad(Str(idx), 6)

\* os.path.join(dir, name) for a relative name
PathJoin(dir, name) == dir \o "/" \o name

\* a keyword argument that was not passed takes the signature's default
Arg(given, default) == IF given = UNSET THEN default ELSE given

\* nth with positions counted from one
nth_from_one(src, n) == IF 1 <= n /\ n <= Len(src) THEN src[n] ELSE None

\* more_itertools.nth(source, n): the item at position n or None;
\* islice raises ValueError for a negative position
nth(src, n) == IF n < Len(src) THEN src[n + 1] ELSE None

----------------------------------------------------------------------------
(* Run records *)

NoPath == ""

Event(op, text, id, path) == [op |-> op, text |-> text, id |-> id, path |-> path]

Emit(r, ev) == [r EXCEPT !.trace = Append(@, ev)]

PyPrint(r, text) == Emit(r, Event("print", text, -1, NoPath))

\* exit(code): SystemExit ends the process with that status
Exit(r, code) == [r EXCEPT !.pc = "done", !.how = "exit", !.code = code]

\* an exception nobody catches: traceback, process status 1
Raise(r, exc) == [r EXCEPT !.pc = "done", !.how = "raise", !.code = 1, !.exc = exc]

\* the function returns to its caller, the process ends with status 0
Return(r) == [r EXCEPT !.pc = "done", !.how = "return", !.code = 0]

Done(r) == r.pc = "done"

NewRun(fn, pc, num, dir, base, ext, dirs) ==
    [fn |-> fn, pc |-> pc, num |-> num, dir |-> dir, base |-> base, ext |-> ext,
     pos |-> 0, limit |-> -1, idx |-> 0, scan |-> None,
     trace |-> << >>, fs |-> {}, dirs |-> dirs,
     how |-> "running", code |-> -1, exc |-> ""]

Idle == NewRun("none", "done", 0, UNSET, UNSET, UNSET, {"."})

\* pcap.PcapScanSource(source_file).single_source(0)
OpenSource(r) == Emit(r, Event("open", <<"PcapScanSource">>, -1, NoPath))

Project(r, scan) == Emit(r, Event("project", <<"XYZLut">>, scan.range, NoPath))

\* the file a writer leaves at `path`
File(path, writer, xyz, complete) ==
    [path |-> path, writer |-> writer, xyz |-> xyz, complete |-> complete]

PutFile(fs, f) == {g \in fs : g.path # f.path} \cup {f}

\* client.XYZLut(metadata)(range): the Cartesian points of one scan
XYZLut(rng) == (3 * rng) + 1

\* one writer call (las.write / o3d.io.write_point_cloud) on file `idx`.
\* The call returns with the file written, or raises: FileNotFoundError when
\* the directory does not exist (nothing is created), or an I/O error inside
\* the writer.  The source neither catches the error nor removes what the
\* writer created before raising, so the failed call leaves either nothing
\* or an incomplete file at `path` (env.fail.partial).
WriteCall(r, writer, path, xyz, idx) ==
    IF r.dir \notin r.dirs
    THEN Raise(r, "FileNotFoundError")
    ELSE IF env.fail.where = "write" /\ env.fail.at = idx
    THEN Raise([r EXCEPT !.fs = IF env.fail.partial
                                 THEN PutFile(@, File(path, writer, xyz, FALSE))
                                 ELSE @],
               "OSError")
    ELSE Emit([r EXCEPT !.fs = PutFile(@, File(path, writer, xyz, TRUE))],
              Event("write", <<writer>>, idx, path))

----------------------------------------------------------------------------
(* pcap_3d_one_scan *)

\* try: import open3d / except ModuleNotFoundError: hint, exit(1)
pcap_3d_one_scan_import(r) ==
    IF "open3d" \in env.missing
    THEN Exit(PyPrint(r, <<"hint", "open3d">>), 1)
    ELSE [r EXCEPT !.pc = "one_scan_nth"]

\* open the source, scan = nth(source, num)
pcap_3d_one_scan_nth(r) ==
    LET o == OpenSource(r) IN
    IF r.num < 0
    THEN Raise(o, "ValueError")
    ELSE [o EXCEPT !.scan = nth(env.capture, r.num),
                   !.pos = Min(r.num + 1, Len(env.capture)),
                   !.pc = "one_scan_check"]

\* if not scan: error, exit(1)
pcap_3d_one_scan_check(r) ==
    IF r.scan = None
    THEN Exit(PyPrint(r, <<"ERROR: Scan # not present", Str(r.num)>>), 1)
    ELSE [r EXCEPT !.pc = "one_scan_render"]

\* project the scan, build the geometries, run the Open3D viewer
pcap_3d_one_scan_render(r) ==
    LET a == Project(r, r.scan)
        b == Emit(a, Event("window", <<"open3d", "create_window">>, -1, NoPath))
        c == Emit(b, Event("render", <<"open3d", "add_geometry">>,
                           XYZLut(r.scan.range), NoPath))
        d == PyPrint(c, <<"Press Q or Escape to exit">>)
        e == Emit(d, Event("window", <<"open3d", "destroy_window">>, -1, NoPath))
    IN Return(e)

----------------------------------------------------------------------------
(* pcap_display_xyz_points *)

\* import matplotlib.pyplot as plt: not guarded by try/except
pcap_display_xyz_points_import(r) ==
    IF "matplotlib" \in env.missing
    THEN Raise(r, "ModuleNotFoundError")
    ELSE [r EXCEPT !.pc = "display_nth"]

pcap_display_xyz_points_nth(r) ==
    LET o == OpenSource(r) IN
    IF r.num < 0
    THEN Raise(o, "ValueError")
    ELSE [o EXCEPT !.scan = nth(env.capture, r.num),
                   !.pos = Min(r.num + 1, Len(env.capture)),
                   !.pc = "display_check"]

pcap_display_xyz_points_check(r) ==
    IF r.scan = None
    THEN Exit(PyPrint(r, <<"ERROR: Scan # not present", Str(r.num)>>), 1)
    ELSE [r EXCEPT !.pc = "display_plot"]

\* set up the figure, project the range channel, scatter, show
pcap_display_xyz_points_plot(r) ==
    LET a == Emit(r, Event("window", <<"matplotlib", "figure">>, -1, NoPath))
        b == Project(a, r.scan)
        c == Emit(b, Event("render", <<"matplotlib", "scatter">>,
                           XYZLut(r.scan.range), NoPath))
        d == Emit(c, Event("window", <<"matplotlib", "show">>, -1, NoPath))
    IN Return(d)

----------------------------------------------------------------------------
(* pcap_to_csv *)

\* the notice followed by exit(1)
pcap_to_csv_exits(r) == Exit(PyPrint(r, <<"NOTICE: pcap-to-csv retired">>), 1)

pcap_to_csv(r) == Return(PyPrint(r, <<"NOTICE: pcap-to-csv retired">>))

----------------------------------------------------------------------------
(* pcap_to_las *)

\* f'{base}_{idx:06d}.{ext}' joined to the output directory
OutPath(dir, base, idx, ext) ==
    PathJoin(dir, base \o "_" \o Format06d(idx) \o "." \o ext)

\* the call binds the defaults; import laspy is not guarded by try/except
pcap_to_las_import(r) ==
    LET b == [r EXCEPT !.dir = Arg(@, "."), !.base = Arg(@, "las_out"),
                       !.ext = Arg(@, "las")] IN
    IF "laspy" \in env.missing
    THEN Raise(b, "ModuleNotFoundError")
    ELSE [b EXCEPT !.pc = "las_open"]

\* open the source, print the dual-return advisory, precompute xyzlut
pcap_to_las_open(r) ==
    LET o == OpenSource(r)
        a == IF env.profile = DUAL
             THEN PyPrint(o, <<"Note: dual returns", "LAS">>)
             ELSE o
    IN [a EXCEPT !.pc = "las_bound"]

\* scans = iter(source); if num: scans = islice(scans, num)
pcap_to_las_bound(r) ==
    IF r.num # 0
    THEN IF r.num < 0
         THEN Raise(r, "ValueError")
         ELSE [r EXCEPT !.limit = r.num, !.idx = 0, !.pc = "las_next"]
    ELSE [r EXCEPT !.limit = -1, !.idx = 0, !.pc = "las_next"]

\* the loop taking one scan more than the limit
pcap_to_las_next_inclusive(r) ==
    IF (r.limit = -1 \/ r.idx <= r.limit) /\ r.pos < Len(env.capture)
    THEN [r EXCEPT !.scan = env.capture[r.pos + 1], !.pos = @ + 1,
                   !.pc = "las_body"]
    ELSE Return(r)

\* for idx, scan in enumerate(scans): the next scan, or the end of the loop
pcap_to_las_next(r) ==
    IF (r.limit = -1 \/ r.idx < r.limit) /\ r.pos < Len(env.capture)
    THEN [r EXCEPT !.scan = env.capture[r.pos + 1], !.pos = @ + 1,
                   !.pc = "las_body"]
    ELSE Return(r)

\* the loop body with the advisory printed inside the loop
pcap_to_las_body_advises(r) ==
    LET n == IF env.profile = DUAL
             THEN PyPrint(r, <<"Note: dual returns", "LAS">>)
             ELSE r
        a == Project(n, r.scan)
        path == OutPath(r.dir, r.base, r.idx, r.ext)
        b == PyPrint(a, <<"write frame", Str(r.idx), path>>)
        c == WriteCall(b, "laspy", path, XYZLut(r.scan.range), r.idx)
    IN IF env.fail.where = "project" /\ env.fail.at = r.idx
       THEN Raise(r, "RuntimeError")
       ELSE IF Done(c) THEN c
       ELSE [c EXCEPT !.idx = @ + 1, !.pc = "las_next"]

\* the loop body: project, build the las object, print, las.write
pcap_to_las_body(r) ==
    IF env.fail.where = "project" /\ env.fail.at = r.idx
    THEN Raise(r, "RuntimeError")
    ELSE LET a == Project(r, r.scan)
             path == OutPath(r.dir, r.base, r.idx, r.ext)
             b == PyPrint(a, <<"write frame", Str(r.idx), path>>)
             c == WriteCall(b, "laspy", path, XYZLut(r.scan.range), r.idx)
         IN IF Done(c) THEN c
            ELSE [c EXCEPT !.idx = @ + 1, !.pc = "las_next"]

----------------------------------------------------------------------------
(* pcap_to_pcd *)

\* the call binds the defaults; open the source, print the advisory
pcap_to_pcd_open(r) ==
    LET b == [r EXCEPT !.dir = Arg(@, "."), !.base = Arg(@, "pcd_out"),
                       !.ext = Arg(@, "pcd")]
        o == OpenSource(b)
        a == IF env.profile = DUAL
             THEN PyPrint(o, <<"Note: dual returns", "PCD">>)
             ELSE o
    IN [a EXCEPT !.pc = "pcd_import"]

\* try: import open3d / except ModuleNotFoundError: hint, exit(1)
pcap_to_pcd_import(r) ==
    IF "open3d" \in env.missing
    THEN Exit(PyPrint(r, <<"hint", "open3d">>), 1)
    ELSE [r EXCEPT !.pc = "pcd_makedirs"]

\* if not os.path.exists(pcd_dir): os.makedirs(pcd_dir); precompute xyzlut
pcap_to_pcd_makedirs(r) ==
    IF r.dir \notin r.dirs
    THEN [Emit(r, Event("makedirs", <<"os">>, -1, r.dir))
             EXCEPT !.dirs = @ \cup {r.dir}, !.pc = "pcd_bound"]
    ELSE [r EXCEPT !.pc = "pcd_bound"]

\* num taken as a scan index that must exist
pcap_to_pcd_bound_rejects(r) ==
    IF r.num >= Len(env.capture)
    THEN Exit(PyPrint(r, <<"ERROR: Scan # not present", Str(r.num)>>), 1)
    ELSE IF r.num < 0
    THEN Raise(r, "ValueError")
    ELSE [r EXCEPT !.limit = IF r.num = 0 THEN -1 ELSE r.num, !.idx = 0,
                   !.pc = "pcd_next"]

pcap_to_pcd_bound(r) ==
    IF r.num # 0
    THEN IF r.num < 0
         THEN Raise(r, "ValueError")
         ELSE [r EXCEPT !.limit = r.num, !.idx = 0, !.pc = "pcd_next"]
    ELSE [r EXCEPT !.limit = -1, !.idx = 0, !.pc = "pcd_next"]

pcap_to_pcd_next(r) ==
    IF (r.limit = -1 \/ r.idx < r.limit) /\ r.pos < Len(env.capture)
    THEN [r EXCEPT !.scan = env.capture[r.pos + 1], !.pos = @ + 1,
                   !.pc = "pcd_body"]
    ELSE Return(r)

\* the loop body naming the file by the source position, not by idx
pcap_to_pcd_body_by_pos(r) ==
    IF env.fail.where = "project" /\ env.fail.at = r.idx
    THEN Raise(r, "RuntimeError")
    ELSE LET a == Project(r, r.scan)
             path == OutPath(r.dir, r.base, r.pos, r.ext)
             b == PyPrint(a, <<"write frame", Str(r.pos), path>>)
             c == WriteCall(b, "open3d", path, XYZLut(r.scan.range), r.idx)
         IN IF Done(c) THEN c
            ELSE [c EXCEPT !.idx = @ + 1, !.pc = "pcd_next"]

\* the loop body: project, build the point cloud, print, write_point_cloud
pcap_to_pcd_body(r) ==
    IF env.fail.where = "project" /\ env.fail.at = r.idx
    THEN Raise(r, "RuntimeError")
    ELSE LET a == Project(r, r.scan)
             path == OutPath(r.dir, r.base, r.idx, r.ext)
             b == PyPrint(a, <<"write frame", Str(r.idx), path>>)
             c == WriteCall(b, "open3d", path, XYZLut(r.scan.range), r.idx)
         IN IF Done(c) THEN c
            ELSE [c EXCEPT !.idx = @ + 1, !.pc = "pcd_next"]

----------------------------------------------------------------------------
(* pcap_to_ply *)

\* the remap with ply_dir not passed on
pcap_to_ply_drops_dir(r) ==
    [r EXCEPT !.fn = "pcap_to_pcd", !.pc = "pcd_open",
              !.dir = UNSET, !.base = Arg(@, "ply_out"),
              !.ext = Arg(@, "ply")]

\* the call binds the ply defaults and passes every argument on to pcap_to_pcd
pcap_to_ply(r) ==
    [r EXCEPT !.fn = "pcap_to_pcd", !.pc = "pcd_open",
              !.dir = Arg(@, "."), !.base = Arg(@, "ply_out"),
              !.ext = Arg(@, "ply")]

----------------------------------------------------------------------------
(* pcap_query_scan *)

RECURSIVE LJust(_, _)
LJust(s, w) == IF Len(s) >= w THEN s ELSE LJust(s \o " ", w)

\* '{0:15} {1}'.format(str(field), dtype)
FieldLine(f) == LJust(f[1], 15) \o " " \o f[2]

\* the scan taken at position num instead of the first
pcap_query_scan_next_by_num(r) ==
    LET o == OpenSource(r) IN
    IF r.num < 0 \/ r.num >= Len(env.capture)
    THEN Raise(o, "StopIteration")
    ELSE PyPrint([o EXCEPT !.scan = env.capture[r.num + 1], !.pos = r.num + 1,
                           !.idx = 0, !.pc = "query_fields"],
                 <<"Available fields and corresponding dtype in LidarScan">>)

\* open the source, scan = next(scans), print the heading
pcap_query_scan_next(r) ==
    LET o == OpenSource(r) IN
    IF Len(env.capture) = 0
    THEN Raise(o, "StopIteration")
    ELSE PyPrint([o EXCEPT !.scan = env.capture[1], !.pos = 1, !.idx = 0,
                           !.pc = "query_fields"],
                 <<"Available fields and corresponding dtype in LidarScan">>)

\* for field in scan.fields: print name and dtype
pcap_query_scan_fields(r) ==
    IF r.idx < Len(env.fields)
    THEN [PyPrint(r, <<"field", FieldLine(env.fields[r.idx + 1])>>)
             EXCEPT !.idx = @ + 1]
    ELSE Return(r)

----------------------------------------------------------------------------
(* pcap_read_packets *)

pcap_read_packets_open(r) ==
    [Emit(r, Event("open", <<"PcapMultiPacketReader">>, -1, NoPath))
        EXCEPT !.idx = 0, !.pc = "packets_loop"]

\* for packet in source: print by packet kind
pcap_read_packets_loop(r) ==
    IF r.idx < Len(env.packets)
    THEN LET k == env.packets[r.idx + 1]
             a == IF k = "lidar"
                  THEN PyPrint(PyPrint(PyPrint(r, <<"  encoder counts">>),
                                       <<"  timestamps">>), <<"  ranges">>)
                  ELSE IF k = "imu"
                  THEN PyPrint(PyPrint(r, <<"  acceleration">>),
                               <<"  angular_velocity">>)
                  ELSE r
         IN [a EXCEPT !.idx = @ + 1]
    ELSE Return(r)

----------------------------------------------------------------------------
(* main *)

\* the dispatch table: example name -> function
examples ==
    [n \in {"open3d-one-scan", "plot-xyz-points", "pcap-to-las", "pcap-to-pcd",
            "pcap-to-ply", "pcap-to-csv", "query-scan", "read-packets"} |->
        CASE n = "open3d-one-scan" -> "pcap_3d_one_scan"
          [] n = "plot-xyz-points" -> "pcap_display_xyz_points"
          [] n = "pcap-to-las" -> "pcap_to_las"
          [] n = "pcap-to-pcd" -> "pcap_to_pcd"
          [] n = "pcap-to-ply" -> "pcap_to_ply"
          [] n = "pcap-to-csv" -> "pcap_to_csv"
          [] n = "query-scan" -> "pcap_query_scan"
          [] n = "read-packets" -> "pcap_read_packets"]

Functions == {examples[n] : n \in DOMAIN examples}

\* the program location a call of each function starts at
EntryPc(fn) ==
    CASE fn = "pcap_3d_one_scan" -> "one_scan_import"
      [] fn = "pcap_display_xyz_points" -> "display_import"
      [] fn = "pcap_to_las" -> "las_import"
      [] fn = "pcap_to_pcd" -> "pcd_open"
      [] fn = "pcap_to_ply" -> "ply_call"
      [] fn = "pcap_to_csv" -> "csv"
      [] fn = "pcap_query_scan" -> "query_next"
      [] fn = "pcap_read_packets" -> "packets_open"

\* parser.parse_args(): EXAMPLE is declared with choices=examples.keys(), so a
\* name outside the table is an argparse error: usage on stderr, status 2
main_parse_args(r) ==
    IF env.argv.example \notin DOMAIN examples
    THEN Exit(Emit(r, Event("stderr", <<"usage", "invalid choice">>, -1, NoPath)),
              2)
    ELSE [r EXCEPT !.pc = "main_dispatch"]

\* try: examples[args.example] / except KeyError: list, exit(1);
\* print the example's name and call it with (pcap_path, scan_num)
main_dispatch(r) ==
    IF env.argv.example \notin DOMAIN examples
    THEN Exit(PyPrint(PyPrint(r, <<"No such example", env.argv.example>>),
                      <<"description">>),
              1)
    ELSE LET fn == examples[env.argv.example] IN
         [PyPrint(r, <<"example:", env.argv.example>>)
             EXCEPT !.fn = fn, !.pc = EntryPc(fn), !.num = env.argv.scan_num]

----------------------------------------------------------------------------
(* The worlds a run starts in *)

Exports == {"pcap_to_las", "pcap_to_pcd", "pcap_to_ply"}

\* the optional library each function imports
Uses(fn) ==
    CASE fn \in {"pcap_3d_one_scan", "pcap_to_pcd", "pcap_to_ply"} -> {"open3d"}
      [] fn = "pcap_to_las" -> {"laspy"}
      [] fn = "pcap_display_xyz_points" -> {"matplotlib"}
      [] OTHER -> {}

DefaultFields == << <<"RANGE", "uint32">>, <<"REFLECTIVITY", "uint8">> >>

\* the captures, installations and failures tried with function fn; what fn
\* never reads is held at one value
Worlds(fn) ==
    { w \in [capture : {Capture(k) : k \in 0..MaxK}, profile : Profiles,
             fields : FieldLists, packets : PacketLists,
             missing : SUBSET Libraries, fail : Failures] :
        /\ w.missing \subseteq Uses(fn)
        /\ fn \notin Exports => w.fail = NoFail /\ w.profile = LEGACY
        /\ fn # "pcap_query_scan" => w.fields = DefaultFields
        /\ fn # "pcap_read_packets" => w.packets = << >>
        /\ fn \in {"pcap_read_packets", "pcap_to_csv", "none"} =>
               w.capture = Capture(0) }

NumValues == (-1)..MaxNum

\* the keyword arguments tried with function fn, and the directories that exist
Calls(fn) ==
    { c \in [fn : {fn}, num : NumValues, dir : {UNSET, "out"},
             base : {UNSET, "b"}, ext : {UNSET, "xyz"},
             dirs : {{"."}, {".", "out"}}] :
        /\ fn \notin Exports =>
               c.dir = UNSET /\ c.base = UNSET /\ c.ext = UNSET
        /\ c.dir = UNSET => c.dirs = {"."} }

NoCall == [fn |-> "none", num |-> 0, dir |-> UNSET, base |-> UNSET,
           ext |-> UNSET, dirs |-> {"."}]

NoArgv == [example |-> "", scan_num |-> 0]

UnknownNames == {"no-such-example", "pcap_to_las"}

MkEnv(entry, argv, call, w) ==
    [entry |-> entry, argv |-> argv, call |-> call,
     capture |-> w.capture, profile |-> w.profile, fields |-> w.fields,
     packets |-> w.packets, missing |-> w.missing, fail |-> w.fail]

StartOf(c) == NewRun(c.fn, EntryPc(c.fn), c.num, c.dir, c.base, c.ext, c.dirs)

\* a function of the module is called directly
InitCall ==
    \E fn \in Functions : \E c \in Calls(fn) : \E w \in Worlds(fn) :
        /\ env = MkEnv("call", NoArgv, c, w)
        /\ run = StartOf(c)
        /\ run2 = Idle

\* the module is run from the command line: PCAP EXAMPLE [--scan-num N]
InitMain ==
    \E name \in DOMAIN examples \cup UnknownNames : \E n \in NumValues :
    \E w \in Worlds(IF name \in DOMAIN examples THEN examples[name] ELSE "none") :
        /\ env = MkEnv("main", [example |-> name, scan_num |-> n], NoCall, w)
        /\ run = NewRun("main", "main_parse_args", 0, UNSET, UNSET, UNSET, {"."})
        /\ run2 = Idle

Init == InitCall \/ InitMain

----------------------------------------------------------------------------
(* Actions: one per statement group *)

Step(pc, next) == run.pc = pc /\ run' = next /\ UNCHANGED <<env, run2>>

MainParseArgs == Step("main_parse_args", main_parse_args(run))
MainDispatch == Step("main_dispatch", main_dispatch(run))
OneScanImport == Step("one_scan_import", pcap_3d_one_scan_import(run))
OneScanNth == Step("one_scan_nth", pcap_3d_one_scan_nth(run))
OneScanCheck == Step("one_scan_check", pcap_3d_one_scan_check(run))
OneScanRender == Step("one_scan_render", pcap_3d_one_scan_render(run))
DisplayImport == Step("display_import", pcap_display_xyz_points_import(run))
DisplayNth == Step("display_nth", pcap_display_xyz_points_nth(run))
DisplayCheck == Step("display_check", pcap_display_xyz_points_check(run))
DisplayPlot == Step("display_plot", pcap_display_xyz_points_plot(run))
LasImport == Step("las_import", pcap_to_las_import(run))
LasOpen == Step("las_open", pcap_to_las_open(run))
LasBound == Step("las_bound", pcap_to_las_bound(run))
LasNext == Step("las_next", pcap_to_las_next(run))
LasBody == Step("las_body", pcap_to_las_body(run))
PcdOpen == Step("pcd_open", pcap_to_pcd_open(run))
PcdImport == Step("pcd_import", pcap_to_pcd_import(run))
PcdMakedirs == Step("pcd_makedirs", pcap_to_pcd_makedirs(run))
PcdBound == Step("pcd_bound", pcap_to_pcd_bound(run))
PcdNext == Step("pcd_next", pcap_to_pcd_next(run))
PcdBody == Step("pcd_body", pcap_to_pcd_body(run))
PlyCall == Step("ply_call", pcap_to_ply(run))
QueryNext == Step("query_next", pcap_query_scan_next(run))
QueryFields == Step("query_fields", pcap_query_scan_fields(run))
PacketsOpen == Step("packets_open", pcap_read_packets_open(run))
PacketsLoop == Step("packets_loop", pcap_read_packets_loop(run))
ToCsv == Step("csv", pcap_to_csv(run))

Next ==
    \/ MainParseArgs \/ MainDispatch
    \/ OneScanImport \/ OneScanNth \/ OneScanCheck \/ OneScanRender
    \/ DisplayImport \/ DisplayNth \/ DisplayCheck \/ DisplayPlot
    \/ LasImport \/ LasOpen \/ LasBound \/ LasNext \/ LasBody
    \/ PcdOpen \/ PcdImport \/ PcdMakedirs \/ PcdBound \/ PcdNext \/ PcdBody
    \/ PlyCall
    \/ QueryNext \/ QueryFields
    \/ PacketsOpen \/ PacketsLoop
    \/ ToCsv

Spec == Init /\ [][Next]_vars

----------------------------------------------------------------------------
(* Vocabulary of the properties *)

\* the function the run was started for
Target ==
    IF env.entry = "main"
    THEN IF env.argv.example \in DOMAIN examples
         THEN examples[env.argv.example] ELSE "none"
    ELSE env.call.fn

\* the scan number / limit the run was given
Num == IF env.entry = "main" THEN env.argv.scan_num ELSE env.call.num

K == Len(env.capture)

IsWrite(e) == e.op = "write"
IsOpen(e) == e.op = "open"
IsPrint(e) == e.op = "print"
IsAdvisory(e) == e.op = "print" /\ e.text[1] = "Note: dual returns"
IsScanError(e) == e.op = "print" /\ e.text[1] = "ERROR: Scan # not present"
IsHint(e) == e.op = "print" /\ e.text[1] = "hint"
IsShown(e) == e.op \in {"project", "window", "render"}
IsProject(e) == e.op = "project"
IsRender(e) == e.op = "render"

Opened(r) == \E i \in 1..Len(r.trace) : IsOpen(r.trace[i])

\* the six decimal digits of i, most significant first
SixDigits(i) ==
    DigitChar[((i \div 100000) % 10) + 1] \o DigitChar[((i \div 10000) % 10) + 1]
    \o DigitChar[((i \div 1000) % 10) + 1] \o DigitChar[((i \div 100) % 10) + 1]
    \o DigitChar[((i \div 10) % 10) + 1] \o DigitChar[(i % 10) + 1]

\* {dir}/{base}_{idx:06d}.{ext}
NameOf(r, i) == r.dir \o "/" \o r.base \o "_" \o SixDigits(i) \o "." \o r.ext

PathsOf(r) == {f.path : f \in r.fs}

ReturnedFrom(fns) == Done(run) /\ run.how = "return" /\ Target \in fns

----------------------------------------------------------------------------
(* C1 *)

\* C1 as stated: a run of pcap_to_las or pcap_to_pcd that returns has written
\* exactly min(N, K) files, named {base}_{idx:06d}.{ext} for idx = 0 ..
\* min(N, K) - 1, for every limit N, N = 0 included.
C1_AsStated ==
    ReturnedFrom({"pcap_to_las", "pcap_to_pcd"}) =>
        /\ Cardinality(run.fs) = Min(Num, K)
        /\ PathsOf(run) = {NameOf(run, i) : i \in 0..(Min(Num, K) - 1)}

\* the number of scans a limit of n exports from k scans: 0 means no limit
Exported(n, k) == IF n = 0 THEN k ELSE Min(n, k)

\* C1 amended: a run of pcap_to_las or pcap_to_pcd that returns normally has
\* written exactly min(N, K) files when N >= 1 and exactly K files when N = 0
\* (0, the default, means no limit), named {base}_{idx:06d}.{ext} with idx
\* running 0, 1, ... without gaps.
C1_FileCount ==
    ReturnedFrom({"pcap_to_las", "pcap_to_pcd"}) =>
        /\ Num >= 0
        /\ Cardinality(run.fs) = Exported(Num, K)
        /\ PathsOf(run) = {NameOf(run, i) : i \in 0..(Exported(Num, K) - 1)}
        /\ \A f \in run.fs : f.complete

C1_Witness ==
    /\ ReturnedFrom({"pcap_to_las"})
    /\ Num = 2 /\ K = 3
    /\ PathsOf(run) = {"./las_out_000000.las", "./las_out_000001.las"}

----------------------------------------------------------------------------
(* C2 *)

----------------------------------------------------------------------------
(* C3 *)

IsDescription(e) == e.op = "print" /\ e.text[1] = "description"

\* C3: main run with an EXAMPLE name outside the dispatch table reprints the
\* list of example names and exits with status 1, for every --scan-num, and
\* invokes no example function.
C3_UnknownExample ==
    (/\ Done(run)
     /\ env.entry = "main"
     /\ env.argv.example \notin DOMAIN examples)
    => /\ run.code = 1
       /\ \E i \in 1..Len(run.trace) : IsDescription(run.trace[i])
       /\ run.fn = "main"

----------------------------------------------------------------------------
(* C4 *)

Viewers == {"pcap_3d_one_scan", "pcap_display_xyz_points"}

CountOf(r, Test(_)) == Cardinality({i \in 1..Len(r.trace) : Test(r.trace[i])})

\* C4: in pcap_3d_one_scan and pcap_display_xyz_points, once the capture of K
\* scans is opened: with num >= K the function prints the scan-not-present
\* error and exits with status 1 before any projection, window or plot; with
\* 0 <= num < K the scan projected and rendered is the scan at zero-based
\* position num, and no other.
C4_ScanSelection ==
    (Target \in Viewers /\ Opened(run)) =>
        /\ \A i \in 1..Len(run.trace) :
              /\ IsShown(run.trace[i]) => 0 <= Num /\ Num < K
              /\ IsProject(run.trace[i]) =>
                     run.trace[i].id = env.capture[Num + 1].range
              /\ IsRender(run.trace[i]) =>
                     run.trace[i].id = XYZLut(env.capture[Num + 1].range)
        /\ (Done(run) /\ Num >= K) =>
              /\ run.how = "exit" /\ run.code = 1
              /\ run.trace[Len(run.trace)].text =
                     <<"ERROR: Scan # not present", Str(Num)>>
              /\ CountOf(run, IsShown) = 0
        /\ (Done(run) /\ 0 <= Num /\ Num < K) =>
              /\ run.how = "return"
              /\ CountOf(run, IsProject) = 1
              /\ CountOf(run, IsRender) = 1
              /\ CountOf(run, IsScanError) = 0

C4_Witness ==
    /\ Done(run) /\ Target = "pcap_display_xyz_points"
    /\ K = 2 /\ Num = K
    /\ run.how = "exit" /\ run.code = 1
    /\ CountOf(run, IsScanError) = 1

----------------------------------------------------------------------------
(* C6 *)

InitialDirs == IF env.entry = "main" THEN {"."} ELSE env.call.dirs

\* C6: in every example that imports an optional library, the absence of
\* that library leads to a printed installation hint and exit status 1 by
\* exit(1), never to a propagating exception, and no directory or file is
\* created.
C6_MissingDependencyCaught ==
    (Done(run) /\ Target \in Functions /\ Uses(Target) \cap env.missing # {}) =>
        /\ run.how = "exit" /\ run.code = 1
        /\ CountOf(run, IsHint) = 1
        /\ run.fs = {} /\ run.dirs = InitialDirs

----------------------------------------------------------------------------
(* C7 *)

IsOwnPrint(e) == e.op = "print" /\ e.text[1] # "example:"

OwnPrints(r) == SelectSeq(r.trace, IsOwnPrint)

RECURSIVE Spaces(_)
Spaces(n) == IF n <= 0 THEN "" ELSE " " \o Spaces(n - 1)

\* field name left-justified in 15 columns, a space, the dtype
ExpectedLine(f) == f[1] \o Spaces(15 - Len(f[1])) \o " " \o f[2]

----------------------------------------------------------------------------
(* C8 *)

\* C8: in pcap_to_las, pcap_to_pcd and pcap_to_ply, once the capture is
\* opened the dual-return advisory has been printed exactly once if the
\* capture's lidar profile is the dual-return profile and never otherwise;
\* it precedes every file write, and its count stays the same however many
\* scans are exported.
C8_AdvisoryOnce ==
    Target \in Exports =>
        /\ CountOf(run, IsAdvisory) =
               IF env.profile = DUAL /\ Opened(run) THEN 1 ELSE 0
        /\ \A i, j \in 1..Len(run.trace) :
               (IsAdvisory(run.trace[i]) /\ IsWrite(run.trace[j])) => i < j

C8_Witness ==
    /\ ReturnedFrom({"pcap_to_las"})
    /\ env.profile = DUAL
    /\ CountOf(run, IsWrite) = MaxK
    /\ CountOf(run, IsAdvisory) = 1

----------------------------------------------------------------------------
(* C9 *)

\* C9: pcap_to_csv, for every source and num, never opens the capture and
\* never creates or writes a file or directory; it prints the deprecation
\* notice and returns normally, so the pcap-to-csv example run from the
\* command line ends with exit status 0.
C9_CsvRetired ==
    Target = "pcap_to_csv" =>
        /\ run.fs = {} /\ run.dirs = InitialDirs
        /\ \A i \in 1..Len(run.trace) : IsPrint(run.trace[i])
        /\ Done(run) =>
              /\ run.how = "return" /\ run.code = 0
              /\ Len(OwnPrints(run)) = 1
              /\ OwnPrints(run)[1].text = <<"NOTICE: pcap-to-csv retired">>

C9_Witness ==
    /\ Done(run) /\ env.entry = "main" /\ env.argv.example = "pcap-to-csv"
    /\ env.argv.scan_num = MaxNum
    /\ run.code = 0 /\ Len(run.trace) = 2

----------------------------------------------------------------------------
(* C10 *)

\* the write events of the trace, in order
WritesOf(r) == SelectSeq(r.trace, IsWrite)

\* file i is complete and holds the projection of the scan at position i
HoldsScan(r, i) ==
    \E f \in r.fs : /\ f.path = NameOf(r, i)
                    /\ f.complete
                    /\ f.xyz = XYZLut(env.capture[i + 1].range)

\* C10 as stated: at every point of a run of pcap_to_las or pcap_to_pcd the
\* files written so far are exactly those of indices 0 .. j-1, written once
\* each in increasing order, file i holding the projection of the scan at
\* position i; after an uncaught failure at scan j no file of index >= j
\* exists.
C10_AsStated ==
    Target \in {"pcap_to_las", "pcap_to_pcd"} =>
        LET j == Len(WritesOf(run)) IN
        /\ \A k \in 1..j : WritesOf(run)[k].id = k - 1
        /\ \A i \in 0..(j - 1) : HoldsScan(run, i)
        /\ Cardinality(run.fs) = j

\* C10 amended: the completed files are exactly those of indices 0 .. j-1,
\* written once each in increasing order, file i holding the projection of
\* the scan at position i; after an uncaught failure at scan j files
\* 0 .. j-1 remain and no file of index > j exists, and a file of index j
\* exists only as the incomplete output of the writer call that failed.
C10_Prefix ==
    Target \in {"pcap_to_las", "pcap_to_pcd"} =>
        LET j == Len(WritesOf(run)) IN
        /\ \A k \in 1..j : WritesOf(run)[k].id = k - 1
        /\ \A i \in 0..(j - 1) : HoldsScan(run, i)
        /\ Cardinality({f \in run.fs : f.complete}) = j
        /\ \A f \in run.fs :
               ~f.complete =>
                   /\ f.path = NameOf(run, j)
                   /\ Done(run) /\ run.how = "raise" /\ run.exc = "OSError"
        /\ Cardinality(run.fs) <= j + 1
        /\ run.pos \in {j, j + 1}

C10_Witness ==
    /\ Done(run) /\ run.how = "raise" /\ Target = "pcap_to_pcd"
    /\ K = MaxK /\ Num = 0
    /\ Len(WritesOf(run)) = 2
    /\ Cardinality(run.fs) = 3

----------------------------------------------------------------------------
(* C5: pcap_to_ply against pcap_to_pcd, run side by side on one world *)

StepOf(r) ==
    CASE r.pc = "ply_call" -> pcap_to_ply(r)
      [] r.pc = "pcd_open" -> pcap_to_pcd_open(r)
      [] r.pc = "pcd_import" -> pcap_to_pcd_import(r)
      [] r.pc = "pcd_makedirs" -> pcap_to_pcd_makedirs(r)
      [] r.pc = "pcd_bound" -> pcap_to_pcd_bound(r)
      [] r.pc = "pcd_next" -> pcap_to_pcd_next(r)
      [] r.pc = "pcd_body" -> pcap_to_pcd_body(r)
      [] OTHER -> r

\* run is pcap_to_ply(path, num, ply_dir, ply_base, ply_ext) and run2 is
\* pcap_to_pcd(path, num, pcd_dir, pcd_base, pcd_ext) with the same values;
\* the extension is given, or left to each function's default
InitPair ==
    \E c \in [fn : {"pcap_to_ply"}, num : NumValues, dir : Dirs,
              base : {"b", "ply_out"}, ext : {UNSET, "ply", "xyz"},
              dirs : {{"."}, {".", "out"}}] :
    \E w \in Worlds("pcap_to_ply") :
        /\ c.dir = "." => c.dirs = {"."}
        /\ env = MkEnv("pair", NoArgv, c, w)
        /\ run = StartOf(c)
        /\ run2 = StartOf([c EXCEPT !.fn = "pcap_to_pcd"])

PlyStep ==
    /\ ~Done(run)
    /\ run' = StepOf(run)
    /\ UNCHANGED <<env, run2>>

PcdStep ==
    /\ Done(run) /\ ~Done(run2)
    /\ run2' = StepOf(run2)
    /\ UNCHANGED <<env, run>>

NextPair == PlyStep \/ PcdStep

SpecPair == InitPair /\ [][NextPair]_vars

\* what a caller can observe of a finished run
Observable(r) ==
    [trace |-> r.trace, fs |-> r.fs, dirs |-> r.dirs,
     how |-> r.how, code |-> r.code, exc |-> r.exc]

\* {dir}/{base}_{idx:06d}. : an output path without its extension
Stem(i) == env.call.dir \o "/" \o env.call.base \o "_" \o SixDigits(i) \o "."

\* strings p and q are the same output path but for the extensions
SameButExt(p, q, e1, e2) ==
    \/ p = q
    \/ \E i \in 0..MaxK : p = Stem(i) \o e1 /\ q = Stem(i) \o e2

SameEventButExt(a, b, e1, e2) ==
    /\ a.op = b.op /\ a.id = b.id
    /\ SameButExt(a.path, b.path, e1, e2)
    /\ Len(a.text) = Len(b.text)
    /\ \A k \in 1..Len(a.text) : SameButExt(a.text[k], b.text[k], e1, e2)

SameFilesButExt(fs1, fs2, e1, e2) ==
    /\ Cardinality(fs1) = Cardinality(fs2)
    /\ \A f \in fs1 : \E g \in fs2 :
          /\ SameButExt(f.path, g.path, e1, e2) /\ f.path # g.path
          /\ f.xyz = g.xyz /\ f.complete = g.complete /\ f.writer = g.writer

\* C5: pcap_to_ply(path, num, ply_dir=dir, ply_base=base, ply_ext=ext) gives
\* the same observable sequence of actions (advisory, directory creation,
\* files, names, points, exit status) as pcap_to_pcd(path, num, pcd_dir=dir,
\* pcd_base=base, pcd_ext=ext); with the extensions left to the defaults the
\* two differ only in the file extension (ply against pcd).
C5_PlyIsPcd ==
    (env.entry = "pair" /\ Done(run) /\ Done(run2)) =>
        IF env.call.ext # UNSET
        THEN Observable(run) = Observable(run2)
        ELSE /\ run.how = run2.how /\ run.code = run2.code
             /\ run.exc = run2.exc /\ run.dirs = run2.dirs
             /\ Len(run.trace) = Len(run2.trace)
             /\ \A i \in 1..Len(run.trace) :
                   SameEventButExt(run.trace[i], run2.trace[i], "ply", "pcd")
             /\ SameFilesButExt(run.fs, run2.fs, "ply", "pcd")

C5_Witness ==
    /\ env.entry = "pair" /\ Done(run) /\ Done(run2)
    /\ env.call.ext = UNSET /\ env.call.dir = "out" /\ env.call.dirs = {"."}
    /\ env.profile = DUAL /\ K = MaxK /\ Num = 2
    /\ Cardinality(run.fs) = 2 /\ Cardinality(run2.fs) = 2
    /\ \E f \in run.fs : f.path = "out/b_000001.ply"
    /\ \E g \in run2.fs : g.path = "out/b_000001.pcd"

====
